---------------------------- MODULE Spec2Model ----------------------------
(***************************************************************************)
(* Model of the SplitView class of browser-splitView.mjs.                  *)
(*                                                                         *)
(* The manager keeps a list of groups (_data), the index of the group      *)
(* that is laid out as the split (currentView) and writes flags,           *)
(* attributes and inline style on tabs, their browsers and their           *)
(* containers.  Every method runs to completion on the UI thread, so each  *)
(* public entry point is one action.  A method is modelled as an operator  *)
(* from a state record to a state record; a TypeError raised on the way    *)
(* (reading .tabs of undefined) stops the method where it is and leaves    *)
(* the writes made so far, which is recorded in the field threw.           *)
(*                                                                         *)
(* Indices are the 0-based indices of the source; -1 is "no group".        *)
(* Fields of the host that this class never writes are not modelled, and   *)
(* docShellIsActive holds what this class last wrote to it.                *)
(***************************************************************************)
EXTENDS Integers, Sequences, FiniteSets, TLC

\* Number of tabs of the window in Spec.
NumTabs == 4
\* Longest list of tabs handed to splitTabs.
MaxSplit == 4
\* Longest group list explored.
MaxGroups == 2

\* Number of tabs of the window in SpecDisjoint.
WideTabs == 5

\* getTabForBrowser found no tab (undefined).
NoTab == 0

VARIABLES
  data,           \* this._data: sequence of [tabs, flexType]
  currentView,    \* this.currentView
  pref,           \* floorp.browser.splitView.working
  selectedTab,    \* window.gBrowser.selectedTab
  open,           \* the tabs of window.gBrowser.tabs (not yet closed)
  tab,            \* per tab: splitView, linkedBrowser.spliting, linkedBrowser.docShellIsActive
  container,      \* per tab: its .browserSidebarContainer
  panel,          \* #tabbrowser-tabpanels
  threw,          \* the last method call raised a TypeError
  last,           \* the last entry point called
  calls           \* the inputs of the splitTabs calls of SpecDisjoint

vars == <<data, currentView, pref, selectedTab, open, tab, container, panel,
          threw, last, calls>>

-----------------------------------------------------------------------------
\* Array helpers, with the 0-based indices of the source.

At(seq, i) == seq[i + 1]

Includes(seq, x) == \E i \in 1..Len(seq) : seq[i] = x

IndexOf(seq, x) ==
  IF Includes(seq, x)
  THEN (CHOOSE i \in 1..Len(seq) :
          seq[i] = x /\ \A j \in 1..(i - 1) : seq[j] # x) - 1
  ELSE -1

\* seq.splice(i, 1)
Splice(seq, i) ==
  [j \in 1..(Len(seq) - 1) |-> IF j <= i THEN seq[j] ELSE seq[j + 1]]

\* this._data.findIndex(group => group.tabs.includes(tab))
FindIndex(d, t) ==
  IF \E i \in 1..Len(d) : Includes(d[i].tabs, t)
  THEN (CHOOSE i \in 1..Len(d) :
          Includes(d[i].tabs, t)
          /\ \A j \in 1..(i - 1) : ~Includes(d[j].tabs, t)) - 1
  ELSE -1

\* A TypeError: the method stops here.
Throw(s) == [s EXCEPT !.threw = TRUE]

-----------------------------------------------------------------------------
\* The state the methods work on.

St ==
  [data |-> data, currentView |-> currentView, pref |-> pref,
   selectedTab |-> selectedTab, tab |-> tab, container |-> container,
   panel |-> panel, threw |-> FALSE]

TabInit ==
  [splitView |-> FALSE, spliting |-> FALSE, docShellIsActive |-> FALSE]

\* order = -1 stands for the empty string of style.order.
ContainerInit ==
  [split |-> FALSE, splitActive |-> FALSE, splitAnim |-> FALSE,
   click |-> FALSE, flex |-> "", order |-> -1, display |-> "",
   visible |-> FALSE]

PanelInit == [splitView |-> FALSE, flexDirection |-> ""]

\* removeAttribute("style")
NoStyle(c) ==
  [c EXCEPT !.flex = "", !.order = -1, !.display = "", !.visible = FALSE]

-----------------------------------------------------------------------------
\* The methods.

resetTabState(s, t, forUnsplit) ==
  [s EXCEPT
     !.tab[t] = [@ EXCEPT !.splitView = FALSE,
                          !.spliting = FALSE,
                          !.docShellIsActive =
                             IF forUnsplit THEN @ ELSE FALSE],
     !.container[t] =
        [NoStyle(@) EXCEPT !.split = FALSE,
                           !.display = IF forUnsplit THEN "" ELSE "none"]]

resetContainerStyle(s, t) ==
  [s EXCEPT !.container[t] =
     [@ EXCEPT !.splitActive = FALSE, !.flex = "", !.order = -1]]

RECURSIVE setTabsDocShellState(_, _, _)
setTabsDocShellState(s, tabs, active) ==
  IF tabs = <<>> THEN s
  ELSE LET t == Head(tabs)
           s1 == [s EXCEPT
                    !.tab[t] = [@ EXCEPT !.spliting = active,
                                         !.docShellIsActive = active],
                    !.container[t] =
                       IF active
                       THEN [@ EXCEPT !.split = TRUE, !.visible = TRUE]
                       ELSE [NoStyle(@) EXCEPT !.split = FALSE]]
       IN setTabsDocShellState(s1, Tail(tabs), active)

\* styleContainer that toggles the split-active marker of the active tab.
styleContainer_Toggles(s, t, isActive, index, flexType) ==
  [s EXCEPT !.container[t] =
     [@ EXCEPT !.splitActive = IF isActive THEN ~@ ELSE FALSE,
               !.splitAnim = TRUE,
               !.click = TRUE,
               !.flex = IF flexType = "flex" THEN "1" ELSE @,
               !.order = IF flexType = "flex" THEN index ELSE @]]

\* styleContainer that does not remove an earlier split-active marker.
styleContainer_KeepsMarker(s, t, isActive, index, flexType) ==
  [s EXCEPT !.container[t] =
     [@ EXCEPT !.splitActive = @ \/ isActive,
               !.splitAnim = TRUE,
               !.click = TRUE,
               !.flex = IF flexType = "flex" THEN "1" ELSE @,
               !.order = IF flexType = "flex" THEN index ELSE @]]

styleContainer(s, t, isActive, index, flexType) ==
  [s EXCEPT !.container[t] =
     [@ EXCEPT !.splitActive = isActive,
               !.splitAnim = TRUE,
               !.click = TRUE,
               !.flex = IF flexType = "flex" THEN "1" ELSE @,
               !.order = IF flexType = "flex" THEN index ELSE @]]

RECURSIVE applyLoop(_, _, _, _, _)
applyLoop(s, tabs, index, flexType, activeTab) ==
  IF index >= Len(tabs) THEN s
  ELSE LET t == At(tabs, index)
           s1 == [s EXCEPT !.tab[t].splitView = TRUE]
           s2 == styleContainer(s1, t, t = activeTab, index, flexType)
       IN applyLoop(s2, tabs, index + 1, flexType, activeTab)

applyFlexBoxLayout(s, tabs, flexType, activeTab) ==
  applyLoop([s EXCEPT !.panel.flexDirection = "column"],
            tabs, 0, flexType, activeTab)

\* splitData is the group at index gi, the one find() returned.
activateSplitView(s, gi, activeTab) ==
  LET s1 == [s EXCEPT !.panel.splitView = TRUE,
                      !.pref = TRUE,
                      !.currentView = gi]
      splitData == At(s.data, gi)
      s2 == applyFlexBoxLayout(s1, splitData.tabs, splitData.flexType,
                               activeTab)
  IN setTabsDocShellState(s2, splitData.tabs, TRUE)

RECURSIVE deactivateLoop(_, _)
deactivateLoop(s, tabs) ==
  IF tabs = <<>> THEN s
  ELSE LET t == Head(tabs)
           s1 == resetContainerStyle(s, t)
           s2 == [s1 EXCEPT !.container[t].click = FALSE]
       IN deactivateLoop(s2, Tail(tabs))

\* deactivateSplitView without the write of the preference.
deactivateSplitView_KeepsPref(s) ==
  IF s.currentView >= Len(s.data) THEN Throw(s)
  ELSE LET tabs == At(s.data, s.currentView).tabs
           s1 == deactivateLoop(s, tabs)
           s2 == [s1 EXCEPT !.panel.splitView = FALSE]
           s3 == setTabsDocShellState(s2, tabs, FALSE)
       IN [s3 EXCEPT !.currentView = -1]

deactivateSplitView(s) ==
  IF s.currentView >= Len(s.data) THEN Throw(s)
  ELSE LET tabs == At(s.data, s.currentView).tabs
           s1 == deactivateLoop(s, tabs)
           s2 == [s1 EXCEPT !.panel.splitView = FALSE, !.pref = FALSE]
           s3 == setTabsDocShellState(s2, tabs, FALSE)
       IN [s3 EXCEPT !.currentView = -1]

updateSplitView(s, t) ==
  LET gi == FindIndex(s.data, t)
      found == gi >= 0
  IN IF found /\ s.currentView >= Len(s.data) THEN Throw(s)
     ELSE IF ~found
             \/ (s.currentView >= 0
                 /\ ~Includes(At(s.data, s.currentView).tabs, t))
     THEN LET s1 == IF s.currentView >= 0 THEN deactivateSplitView(s)
                    ELSE s
          IN IF s1.threw \/ ~found THEN s1
             ELSE activateSplitView(s1, gi, t)
     ELSE activateSplitView(s, gi, t)

RECURSIVE resetLoop(_, _)
resetLoop(s, tabs) ==
  IF tabs = <<>> THEN s
  ELSE resetLoop(resetTabState(s, Head(tabs), TRUE), Tail(tabs))

resetSplitView(s) ==
  LET s1 == resetLoop(s, At(s.data, s.currentView).tabs)
  IN [s1 EXCEPT !.currentView = -1,
                !.panel.splitView = FALSE,
                !.panel.flexDirection = "",
                !.pref = FALSE]

removeGroup(s, groupIndex) ==
  LET s1 == IF s.currentView = groupIndex THEN resetSplitView(s) ELSE s
  IN [s1 EXCEPT !.data = Splice(@, groupIndex)]

\* removeTabFromGroup that removes the group only once it is empty.
removeTabFromGroup_WhenEmpty(s, t, groupIndex, forUnsplit) ==
  LET group == At(s.data, groupIndex)
      tabIndex == IndexOf(group.tabs, t)
      s1 == [s EXCEPT !.data[groupIndex + 1].tabs = Splice(@, tabIndex)]
      s2 == resetTabState(s1, t, forUnsplit)
      left == At(s2.data, groupIndex).tabs
  IN IF Len(left) < 1 THEN removeGroup(s2, groupIndex)
     ELSE updateSplitView(s2, At(left, Len(left) - 1))

removeTabFromGroup(s, t, groupIndex, forUnsplit) ==
  LET group == At(s.data, groupIndex)
      tabIndex == IndexOf(group.tabs, t)
      s1 == [s EXCEPT !.data[groupIndex + 1].tabs = Splice(@, tabIndex)]
      s2 == resetTabState(s1, t, forUnsplit)
      left == At(s2.data, groupIndex).tabs
  IN IF Len(left) < 2 THEN removeGroup(s2, groupIndex)
     ELSE updateSplitView(s2, At(left, Len(left) - 1))

\* handleTabClose that resets the tab before it looks for its group.
handleTabClose_ResetsFirst(s, t, forUnsplit) ==
  LET groupIndex == FindIndex(s.data, t)
  IN IF groupIndex < 0 THEN resetTabState(s, t, forUnsplit)
     ELSE removeTabFromGroup(s, t, groupIndex, forUnsplit)

handleTabClose(s, t, forUnsplit) ==
  LET groupIndex == FindIndex(s.data, t)
  IN IF groupIndex < 0 THEN s
     ELSE removeTabFromGroup(s, t, groupIndex, forUnsplit)

\* splitTabs that does not select the first tab of a new group.
splitTabs_NoSelect(s, tabs) ==
  LET flagged == {i \in 1..Len(tabs) : s.tab[tabs[i]].splitView}
      existing == IF flagged = {} THEN NoTab
                  ELSE tabs[CHOOSE i \in flagged : \A j \in flagged : i <= j]
  IN IF existing # NoTab /\ FindIndex(s.data, existing) >= 0
     THEN updateSplitView(s, existing)
     ELSE LET s1 == [s EXCEPT
                       !.data = Append(@, [tabs |-> tabs,
                                           flexType |-> "flex"])]
          IN updateSplitView(s1, tabs[1])

splitTabs(s, tabs) ==
  LET flagged == {i \in 1..Len(tabs) : s.tab[tabs[i]].splitView}
      existing == IF flagged = {} THEN NoTab
                  ELSE tabs[CHOOSE i \in flagged : \A j \in flagged : i <= j]
  IN IF existing # NoTab /\ FindIndex(s.data, existing) >= 0
     THEN updateSplitView(s, existing)
     ELSE LET s1 == [s EXCEPT
                       !.data = Append(@, [tabs |-> tabs,
                                           flexType |-> "flex"]),
                       !.selectedTab = tabs[1]]
          IN updateSplitView(s1, tabs[1])

contextSplitTabs(s, contextTab) ==
  IF contextTab = s.selectedTab THEN s
  ELSE splitTabs(s, <<contextTab, s.selectedTab>>)

onLocationChange(s, t) ==
  IF t # NoTab THEN updateSplitView(s, t) ELSE s

\* The for...of of unsplitCurrentView walks the live tabs array of the group
\* object it started on while handleTabClose splices that same array.  gi is
\* the index of that object in _data (-1 once it has left the list), arr its
\* array and i the position of the iterator.
RECURSIVE unsplitLoop(_, _, _, _)
unsplitLoop(s, gi, arr, i) ==
  IF s.threw \/ i >= Len(arr) THEN s
  ELSE LET t == At(arr, i)
           k == FindIndex(s.data, t)
           removed == k >= 0 /\ Len(At(s.data, k).tabs) - 1 < 2
           gi2 == IF gi < 0 \/ k < 0 THEN gi
                  ELSE IF k = gi THEN (IF removed THEN -1 ELSE gi)
                  ELSE IF removed /\ k < gi THEN gi - 1
                  ELSE gi
           arr2 == IF gi >= 0 /\ k = gi THEN Splice(arr, IndexOf(arr, t))
                   ELSE arr
       IN unsplitLoop(handleTabClose(s, t, TRUE), gi2, arr2, i + 1)

unsplitCurrentView(s) ==
  IF s.currentView < 0 \/ s.currentView >= Len(s.data) THEN Throw(s)
  ELSE LET currentTab == s.selectedTab
           s1 == unsplitLoop(s, s.currentView,
                             At(s.data, s.currentView).tabs, 0)
       IN IF s1.threw THEN s1 ELSE [s1 EXCEPT !.selectedTab = currentTab]

\* The click listener of a container: t is the tab gBrowser.tabs.find() returns
\* for it, NoTab when there is none.
handleTabClick(s, t) ==
  IF t # NoTab THEN [s EXCEPT !.selectedTab = t] ELSE s

-----------------------------------------------------------------------------
\* Inputs: lists of distinct tabs.

RECURSIVE SeqsUpTo(_, _)
SeqsUpTo(S, n) ==
  IF n = 0 THEN {<<>>}
  ELSE LET shorter == SeqsUpTo(S, n - 1)
       IN shorter \cup {Append(q, x) : q \in shorter, x \in S}

Distinct(q) == \A i, j \in 1..Len(q) : i # j => q[i] # q[j]

AllTabs == 1..(IF NumTabs > WideTabs THEN NumTabs ELSE WideTabs)

AllSplitInputs ==
  {q \in SeqsUpTo(AllTabs, MaxSplit) : Len(q) >= 2 /\ Distinct(q)}

\* The lists of at least 2 distinct tabs of S.
SplitInputs(S) ==
  {q \in AllSplitInputs : \A i \in 1..Len(q) : q[i] \in S}

-----------------------------------------------------------------------------
\* The state machine.

\* The state the constructor leaves in a window of n tabs.  Tab names are
\* interchangeable, so the selected tab is called 1.
InitWith(n) ==
  /\ data = <<>>
  /\ currentView = -1
  /\ pref = FALSE
  /\ selectedTab = 1
  /\ open = 1..n
  /\ tab = [t \in 1..n |-> TabInit]
  /\ container = [t \in 1..n |-> ContainerInit]
  /\ panel = PanelInit
  /\ threw = FALSE
  /\ last = "constructor"
  /\ calls = <<>>

Init == InitWith(NumTabs)

\* The method has run: its writes become the next state.
Becomes(s) ==
  /\ data' = s.data
  /\ currentView' = s.currentView
  /\ pref' = s.pref
  /\ selectedTab' = s.selectedTab
  /\ tab' = s.tab
  /\ container' = s.container
  /\ panel' = s.panel
  /\ threw' = s.threw

SplitTabs ==
  \E tabs \in SplitInputs(open) :
    LET s == splitTabs(St, tabs)
    IN /\ Len(s.data) <= MaxGroups
       /\ Becomes(s)
       /\ last' = "splitTabs"
       /\ UNCHANGED <<open, calls>>

ContextSplitTabs ==
  \E contextTab \in open :
    LET s == contextSplitTabs(St, contextTab)
    IN /\ Len(s.data) <= MaxGroups
       /\ Becomes(s)
       /\ last' = "contextSplitTabs"
       /\ UNCHANGED <<open, calls>>

OnLocationChange ==
  \E t \in open \cup {NoTab} :
    /\ Becomes(onLocationChange(St, t))
    /\ last' = "onLocationChange"
    /\ UNCHANGED <<open, calls>>

\* The host closes tab t: the TabClose listener runs (the event carries no
\* forUnsplit), the tab leaves gBrowser.tabs and, if it was the selected one,
\* the host selects another tab.  The window keeps at least one tab.
TabClose ==
  \E t \in open :
    /\ open # {t}
    /\ LET s == handleTabClose(St, t, FALSE)
       IN \E n \in open \ {t} :
            /\ (selectedTab # t => n = s.selectedTab)
            /\ Becomes([s EXCEPT !.selectedTab = n])
    /\ open' = open \ {t}
    /\ last' = "handleTabClose"
    /\ UNCHANGED calls

UnsplitCurrentView ==
  /\ Becomes(unsplitCurrentView(St))
  /\ last' = "unsplitCurrentView"
  /\ UNCHANGED <<open, calls>>

\* A click on the container of an open tab that carries the listener.
HandleTabClick ==
  \E t \in open :
    /\ container[t].click
    /\ Becomes(handleTabClick(St, t))
    /\ last' = "handleTabClick"
    /\ UNCHANGED <<open, calls>>

Next ==
  \/ SplitTabs
  \/ ContextSplitTabs
  \/ OnLocationChange
  \/ TabClose
  \/ UnsplitCurrentView
  \/ HandleTabClick

Spec == Init /\ [][Next]_vars

-----------------------------------------------------------------------------
\* splitTabs alone, from the initial state, on lists of tabs that no earlier
\* call was given.

UsedTabs ==
  UNION {{calls[i][j] : j \in 1..Len(calls[i])} : i \in 1..Len(calls)}

DisjointSplitTabs ==
  \E tabs \in SplitInputs(open \ UsedTabs) :
    /\ Becomes(splitTabs(St, tabs))
    /\ last' = "splitTabs"
    /\ calls' = Append(calls, tabs)
    /\ UNCHANGED open

InitDisjoint == InitWith(WideTabs)

SpecDisjoint == InitDisjoint /\ [][DisjointSplitTabs]_vars

-----------------------------------------------------------------------------
\* Vocabulary of the properties.

\* The tabs of the group at 0-based index i.
GroupTabs(i) == At(data, i).tabs

InGroup(t) == FindIndex(data, t) >= 0

\* currentView names a group of the list.
ViewValid == currentView >= 0 /\ currentView < Len(data)

\* Tab t is rendered as a pane of the split: the manager set the split
\* attribute on its container and made its docshell active.
ActiveLayout(t) == container[t].split /\ tab[t].docShellIsActive

\* The inline style of the container of t is empty in state s.
StyleCleared(s, t) ==
  /\ s.container[t].flex = ""
  /\ s.container[t].order = -1
  /\ s.container[t].display = ""
  /\ ~s.container[t].visible

-----------------------------------------------------------------------------
\* C1: no tab is a member of more than one group of the group list.
C1_OneGroupPerTab ==
  \A i, j \in 1..Len(data) :
    i # j => \A t \in DOMAIN tab :
               ~(Includes(data[i].tabs, t) /\ Includes(data[j].tabs, t))

\* C2: currentView is -1 or the index of a group of the list, and that group
\* is exactly the set of tabs that carry the active split layout.
C2_ViewNamesActiveGroup ==
  \/ currentView = -1
  \/ /\ ViewValid
     /\ \A t \in DOMAIN tab :
          ActiveLayout(t) <=> Includes(GroupTabs(currentView), t)

\* C3: at most one group is active: no two groups both have a member with the
\* active layout, and every member of a group other than the one currentView
\* names is deactivated (docshell inactive, no split attribute).
C3_AtMostOneActiveGroup ==
  /\ \A i, j \in 1..Len(data) :
       i # j => ~(/\ \E t \in DOMAIN tab :
                       Includes(data[i].tabs, t) /\ ActiveLayout(t)
                  /\ \E t \in DOMAIN tab :
                       Includes(data[j].tabs, t) /\ ActiveLayout(t))
  /\ \A i \in 1..Len(data) :
       i - 1 # currentView =>
         \A k \in 1..Len(data[i].tabs) :
           /\ ~tab[data[i].tabs[k]].docShellIsActive
           /\ ~container[data[i].tabs[k]].split

\* C4: splitTabs on a list with a member of an existing group leaves the group
\* list as it was and that group the current one.
C4_SplitOfMemberReactivates ==
  \A tabs \in SplitInputs(open) :
    (\E i \in 1..Len(tabs) : InGroup(tabs[i])) =>
      LET s == splitTabs(St, tabs)
      IN /\ s.data = data
         /\ \E i \in 1..Len(tabs) :
              /\ InGroup(tabs[i])
              /\ s.currentView = FindIndex(data, tabs[i])

\* C5: unsplitCurrentView with a group active dissolves the whole group: no
\* former member is in a group, each has splitView false and a container that
\* is not hidden, one group less, currentView -1 and the preference false.
C5_UnsplitDissolvesGroup ==
  ViewValid =>
    LET s == unsplitCurrentView(St)
        members == GroupTabs(currentView)
    IN /\ \A k \in 1..Len(members) :
            /\ FindIndex(s.data, members[k]) < 0
            /\ ~s.tab[members[k]].splitView
            /\ s.container[members[k]].display # "none"
       /\ Len(s.data) = Len(data) - 1
       /\ s.currentView = -1
       /\ ~s.pref

\* C6: after k splitTabs calls on pairwise disjoint lists from the initial
\* state there are k groups, the i-th holding the i-th input in input order,
\* and the group of the last call is the current one, laid out, with the first
\* tab of that input selected.
C6_DisjointSplitsBuildGroups ==
  /\ Len(data) = Len(calls)
  /\ \A i \in 1..Len(calls) : data[i].tabs = calls[i]
  /\ calls # <<>> =>
       /\ ~threw
       /\ currentView = Len(data) - 1
       /\ selectedTab = calls[Len(calls)][1]
       /\ \A t \in DOMAIN tab :
            ActiveLayout(t) <=> Includes(calls[Len(calls)], t)

C6_Witness ==
  /\ last = "splitTabs"
  /\ Len(calls) = 2
  /\ Len(data) = 2
  /\ currentView = 1
  /\ Len(calls[1]) = 3

\* C7: every group of the group list has at least 2 member tabs.
C7_GroupsHaveTwoTabs ==
  \A i \in 1..Len(data) : Len(data[i].tabs) >= 2

\* A close has just destroyed a 2-member group: the closed tab is hidden and
\* its open partner, once laid out, is in no group any more.
C7_Witness ==
  /\ last = "handleTabClose"
  /\ data = <<>>
  /\ \E t \in DOMAIN tab \ open :
       container[t].display = "none" /\ container[t].splitAnim
  /\ \E u \in open : container[u].splitAnim /\ ~InGroup(u)

\* C8: the preference flag is true exactly when currentView is not -1.
C8_PrefIffView == pref <=> currentView # -1

\* A location change has just deactivated the split: groups remain, none is
\* current and the preference is false.
C8_Witness ==
  /\ last = "onLocationChange"
  /\ data # <<>>
  /\ currentView = -1
  /\ ~pref
  /\ \E t \in open : InGroup(t) /\ container[t].splitAnim

\* C9: updateSplitView(t) raises no error for any tab t, and leaves
\* currentView the index of the group of t, -1 if t has no group.
C9_UpdateNeverRaises ==
  \A t \in open :
    LET s == updateSplitView(St, t)
    IN ~s.threw /\ s.currentView = FindIndex(s.data, t)

\* C10: handleTabClose on a member of a 2-member group destroys the group: one
\* group less and neither former member in a group; if the group was the
\* current one and the close an ordinary one, currentView is -1, the
\* preference false, the closed tab hidden with an inactive docshell and the
\* other tab has splitView false, no split attribute and no inline style.
C10_CloseDestroysPair ==
  \A t \in open : \A forUnsplit \in BOOLEAN :
    LET k == FindIndex(data, t)
    IN (k >= 0 /\ Len(GroupTabs(k)) = 2) =>
         LET s == handleTabClose(St, t, forUnsplit)
             u == IF GroupTabs(k)[1] = t THEN GroupTabs(k)[2]
                  ELSE GroupTabs(k)[1]
         IN /\ Len(s.data) = Len(data) - 1
            /\ FindIndex(s.data, t) < 0
            /\ FindIndex(s.data, u) < 0
            /\ (currentView = k /\ ~forUnsplit) =>
                 /\ s.currentView = -1
                 /\ ~s.pref
                 /\ s.container[t].display = "none"
                 /\ ~s.tab[t].docShellIsActive
                 /\ ~s.tab[u].splitView
                 /\ ~s.container[u].split
                 /\ StyleCleared(s, u)

\* seq without the tab t, the other tabs in their order.
Without(seq, t) == SelectSeq(seq, LAMBDA x : x # t)

\* C11: handleTabClose on a member of a group of 3 or more tabs leaves that
\* group in the list with the other members in their order, and every other
\* group as it was.
C11_CloseKeepsRest ==
  \A t \in open : \A forUnsplit \in BOOLEAN : \A i \in 1..Len(data) :
    (Includes(data[i].tabs, t) /\ Len(data[i].tabs) >= 3) =>
      LET s == handleTabClose(St, t, forUnsplit)
      IN /\ Len(s.data) = Len(data)
         /\ s.data[i].tabs = Without(data[i].tabs, t)
         /\ \A j \in 1..Len(data) : j # i => s.data[j] = data[j]

\* C12: after handleTabClose has removed a member of the current group and 2
\* or more remain, currentView is unchanged, exactly the new last member of
\* the group carries the split-active marker, every remaining member has an
\* active docshell and the order of its container is its position in the list.
C12_CloseRelaysOutGroup ==
  \A t \in open : \A forUnsplit \in BOOLEAN :
    LET k == FindIndex(data, t)
    IN (k >= 0 /\ k = currentView /\ Len(GroupTabs(k)) >= 3) =>
         LET s == handleTabClose(St, t, forUnsplit)
             rest == Without(GroupTabs(k), t)
         IN /\ s.currentView = currentView
            /\ \A n \in 1..Len(rest) :
                 /\ s.container[rest[n]].splitActive <=> n = Len(rest)
                 /\ s.tab[rest[n]].docShellIsActive
                 /\ s.container[rest[n]].order = n - 1

\* C13: when updateSplitView(t) activates the group of t, currentView is the
\* index of that group, every member has splitView and an active docshell,
\* and among the members exactly t carries the split-active marker.
C13_UpdateActivatesGroup ==
  \A t \in open :
    LET gi == FindIndex(data, t)
        s == updateSplitView(St, t)
    IN (gi >= 0 /\ ~s.threw) =>
         /\ s.currentView = gi
         /\ Includes(At(s.data, gi).tabs, t)
         /\ \A n \in 1..Len(At(s.data, gi).tabs) :
              LET u == At(s.data, gi).tabs[n]
              IN /\ s.tab[u].splitView
                 /\ s.tab[u].docShellIsActive
                 /\ s.container[u].splitActive <=> u = t

\* A location change has just activated the first of two groups on its second
\* member: it is the current group, all its members are live and only the
\* second one carries the marker.
C13_Witness ==
  /\ last = "onLocationChange"
  /\ ~threw
  /\ Len(data) = 2
  /\ currentView = 0
  /\ container[GroupTabs(0)[2]].splitActive
  /\ ~container[GroupTabs(0)[1]].splitActive
  /\ \A n \in 1..Len(GroupTabs(0)) :
       tab[GroupTabs(0)[n]].docShellIsActive
  /\ \A n \in 1..Len(GroupTabs(1)) : ~ActiveLayout(GroupTabs(1)[n])

\* C14: after deactivateSplitView has run on an active group (updateSplitView
\* on a tab that has no group), currentView is -1, every member of that group
\* has an inactive docshell and no container of the window carries the
\* split-active marker.
C14_DeactivateClearsMarkers ==
  \A t \in open :
    (ViewValid /\ ~InGroup(t)) =>
      LET s == updateSplitView(St, t)
          members == GroupTabs(currentView)
      IN /\ s.currentView = -1
         /\ \A n \in 1..Len(members) : ~s.tab[members[n]].docShellIsActive
         /\ \A u \in open : ~s.container[u].splitActive

\* C15: for a member t of the current group, updateSplitView(t) twice leaves
\* the state that updateSplitView(t) once leaves (group list, currentView,
\* preference, tab flags, container attributes and style).
C15_UpdateIdempotent ==
  \A t \in open :
    (ViewValid /\ Includes(GroupTabs(currentView), t)) =>
      LET s == updateSplitView(St, t)
      IN updateSplitView(s, t) = s

\* A location change has just run updateSplitView on a member of the current
\* group that is not its first tab: it carries the marker, and running
\* updateSplitView on it again changes nothing.
C15_Witness ==
  /\ last = "onLocationChange"
  /\ ~threw
  /\ ViewValid
  /\ \E n \in 2..Len(GroupTabs(currentView)) :
       LET t == GroupTabs(currentView)[n]
       IN /\ t \in open
          /\ container[t].splitActive
          /\ ~container[GroupTabs(currentView)[1]].splitActive
          /\ updateSplitView(St, t) = St

\* C16: handleTabClose of a tab that is in no group raises no error and
\* changes nothing: group list, currentView, preference, tab flags and
\* containers, those of the closing tab included, stay as they are.
C16_CloseOfUngroupedIsNoOp ==
  \A t \in open : \A forUnsplit \in BOOLEAN :
    ~InGroup(t) => handleTabClose(St, t, forUnsplit) = St

\* Tabs have been closed, the last step was a close, and no closed tab was
\* ever touched by the manager, while a group is laid out: the close was one
\* of a tab without a group.
C16_Witness ==
  /\ last = "handleTabClose"
  /\ ~threw
  /\ ViewValid
  /\ open # DOMAIN tab
  /\ \A t \in DOMAIN tab \ open :
       tab[t] = TabInit /\ container[t] = ContainerInit

\* C17: the splitView flag of a tab is true exactly when the tab is a member
\* of some group of the group list.
C17_FlagIffMember ==
  \A t \in open : tab[t].splitView <=> InGroup(t)

\* C18: handleTabClose on a tab whose group is not the current one leaves the
\* active split as it was: a group that was current is still current with all
\* its members' docshells active, and if none was current none is.
C18_CloseElsewhereKeepsActive ==
  \A t \in open :
    LET k == FindIndex(data, t)
        s == handleTabClose(St, t, FALSE)
    IN (k >= 0 /\ k # currentView) =>
         /\ currentView = -1 => s.currentView = -1
         /\ ViewValid =>
              /\ ~s.threw
              /\ s.currentView >= 0 /\ s.currentView < Len(s.data)
              /\ At(s.data, s.currentView).tabs = GroupTabs(currentView)
              /\ \A n \in 1..Len(GroupTabs(currentView)) :
                   s.tab[GroupTabs(currentView)[n]].docShellIsActive

\* C19: the split-active marker and the click listener are only on containers
\* of members of the current group.
C19_MarkerOnlyInActiveGroup ==
  \A t \in open :
    (container[t].splitActive \/ container[t].click) =>
      (ViewValid /\ Includes(GroupTabs(currentView), t))

\* C20: unsplitCurrentView with no current group raises no error and changes
\* nothing.
C20_UnsplitWithoutViewIsNoOp ==
  currentView = -1 =>
    LET s == unsplitCurrentView(St)
    IN ~s.threw /\ s = St

=============================================================================
